---- MODULE Spec2Model ----
(***************************************************************************)
(* Playback engine of static/script.js: the `state` object, the            *)
(* requestAnimationFrame loop (animate), the run / play-pause / reset      *)
(* click handlers, the resize handler and the fetch promise chain.         *)
(*                                                                         *)
(* Time is counted in milliseconds, as Date.now() does.  The two numbers   *)
(* of `state` that can become NaN (frameIdx, playStartTime) are records:   *)
(* Num(v) for the number v, NaN for NaN.  Every quotient the handlers      *)
(* form is exact for the frame counts used here, because                   *)
(* positions.length - 1 divides simDuration * 1000 for them.               *)
(***************************************************************************)
EXTENDS Integers, Sequences, FiniteSets, TLC

VARIABLES state, now, size, pending, loaderShown, rafPending, hung, fx,
          toggleTrail, runTrail, lastTick, resetTrail, raceTrail,
          rIn, rOut

vars == <<state, now, size, pending, loaderShown, rafPending, hung, fx,
          toggleTrail, runTrail, lastTick, resetTrail, raceTrail,
          rIn, rOut>>

\* arguments and result of one call of a drawing helper on its own
rvars == <<rIn, rOut>>

\* ---------------------------------------------------------------- config
simDuration == 60
traceLen == 100

\* simDuration in the unit of Date.now()
Period == simDuration * 1000

\* CONFIG.colors
colors == <<"#1f77b4", "#d62728", "#2ca02c", "#17becf", "#9467bd",
            "#e377c2", "#bcbd22">>

\* ---------------------------------------------------------------- bounds
MaxFrames == 3
MaxTicks == 4
MaxPending == 2
\* largest frame index the trace loop is run for on its own
MaxTraceIdx == 102
\* largest coordinate the mapper is applied to on its own
MaxCoord == 1

\* the wall clock moves in thirds of the simulated duration
TimeStep == Period \div 3
MaxNow == MaxTicks * TimeStep

\* container widths the canvases are resized to
Sizes == {400, 800}
\* values of the body-count input a run is requested with
Ns == {1, 21}
\* spatial limits of received datasets: regular, zero, negative
Limits == {2, 0, -1}

\* ---------------------------------------------------------------- values
Null == [null |-> TRUE]
NaN == [nan |-> TRUE]
Num(v) == [num |-> v]

\* animation_data of a response: n bodies, spatial limit, positions.length
Data(n, lim, len) == [n |-> n, limit |-> lim, nFrames |-> len]

\* datasets a successful response may carry: every frame count with a
\* regular limit, every limit with two frames, and one of many bodies
Datasets ==
    {Data(1, 2, len) : len \in 0..MaxFrames}
        \cup {Data(1, lim, 2) : lim \in Limits}
        \cup {Data(21, 2, MaxFrames)}

\* frame j (0-based) of a dataset: 2n interleaved coordinates
Positions(d) ==
    [j \in 0..(d.nFrames - 1) |-> [i \in 0..(2 * d.n - 1) |-> j + i]]

\* ---------------------------------------------------------------- numbers
\* JavaScript's %: the result takes the sign of the dividend
JsRem(a, b) == IF a >= 0 THEN a % b ELSE -((-a) % b)

\* variant: the progress wraps after half of simDuration
FrameAt_HalfPeriod(t, origin, len) ==
    IF origin = NaN THEN NaN
    ELSE Num((JsRem(t - origin.num, Period \div 2) * len) \div Period)

\* animate: elapsed -> progress -> frame index
\*   floor((((t - origin) / 1000 / simDuration) % 1) * len)
FrameAt(t, origin, len) ==
    IF origin = NaN THEN NaN
    ELSE Num((JsRem(t - origin.num, Period) * len) \div Period)

\* play handler, resume branch:
\*   t - (f / (len - 1)) * simDuration * 1000
\* f / 0 is NaN for f = 0 (a one-frame dataset never holds another index)
ResumeOrigin(t, f, len) ==
    IF f = NaN \/ len = 1 THEN NaN
    ELSE IF len = 0 THEN Num(t + f.num * Period)
    ELSE Num(t - ((f.num * Period) \div (len - 1)))

\* progress of the clock within the period, in ms
ProgressAt(t, origin) ==
    IF origin = NaN THEN NaN ELSE Num(JsRem(t - origin.num, Period))

\* ---------------------------------------------------------------- drawing
InRange(d, j) == j \in 0..(d.nFrames - 1)

\* frames the red tail of drawFrame visits: startTrace .. frameIdx
TraceFrames(f) ==
    IF f = NaN THEN {}
    ELSE {j \in 0..f.num : j >= f.num - traceLen}

\* drawFrame on a loaded dataset: "throw" when it reads a coordinate of an
\* undefined frame (positions[j] for j outside the array, or for j = NaN)
DrawFrameResult(d, f) ==
    IF \E j \in TraceFrames(f) : ~InRange(d, j) THEN "throw"
    ELSE IF d.n >= 1 /\ (f = NaN \/ ~InRange(d, f.num)) THEN "throw"
    ELSE "ok"

\* drawGraph on a loaded dataset: the minor-grid loops of drawGrid step by
\* scale / 5 and never end when the scale is negative; the trajectory loops
\* read positions[0..frameIdx]
DrawGraphResult(d, f, w) ==
    IF w > 0 /\ d.limit < 0 THEN "hang"
    ELSE IF d.n >= 1 /\ f # NaN /\ (\E j \in 0..f.num : ~InRange(d, j)) THEN "throw"
    ELSE "ok"

Draw(fn, f, w, res) == [fn |-> fn, frame |-> f, w |-> w, result |-> res]

\* drawFrame(); drawGraph(); as every caller runs them: both return at once
\* without a dataset, and drawGraph is not reached when drawFrame throws
RunDraws(d, f, w) ==
    IF d = Null THEN << >>
    ELSE LET a == Draw("drawFrame", f, w, DrawFrameResult(d, f))
         IN  IF a.result # "ok" THEN <<a>>
             ELSE <<a, Draw("drawGraph", f, w, DrawGraphResult(d, f, w))>>

Outcome(draws) == IF draws = << >> THEN "ok" ELSE draws[Len(draws)].result

\* what the last handler showed: alert text (by cause) and draw calls
Fx(op, alert, draws) == [op |-> op, alert |-> alert, draws |-> draws]

\* ---------------------------------------------------------------- geometry
\* a scale or coordinate is Num(v), NaN or Inf(sign)
Inf(sg) == [inf |-> sg]
IsNum(a) == "num" \in DOMAIN a
Sign(v) == IF v < 0 THEN -1 ELSE 1
Abs(v) == IF v < 0 THEN -v ELSE v
Max(a, b) == IF a >= b THEN a ELSE b

\* (dim / 2) / limit of drawFrame and drawGraph; the quotient is exact for
\* the sizes and limits used here
Scale(dim, limit) ==
    IF limit = 0 THEN (IF dim = 0 THEN NaN ELSE Inf(1))
    ELSE Num(Sign(limit) * ((dim \div 2) \div Abs(limit)))

\* x * scale and a + c in JavaScript numbers
Times(x, sc) ==
    IF sc = NaN THEN NaN
    ELSE IF IsNum(sc) THEN Num(x * sc.num)
    ELSE IF x = 0 THEN NaN
    ELSE Inf(Sign(x) * sc.inf)

Plus(a, c) == IF IsNum(a) THEN Num(a.num + c) ELSE a

\* variant: the centre offset is the full width and height
getScreenPos_FullOffset(x, y, sc, w, h) ==
    [x |-> Plus(Times(x, sc), w), y |-> Plus(Times(-y, sc), h)]

\* getScreenPos
getScreenPos(x, y, sc, w, h) ==
    [x |-> Plus(Times(x, sc), w \div 2), y |-> Plus(Times(-y, sc), h \div 2)]

\* variant: the tail is not clamped at the first frame
StartTrace_NoClamp(f) == f - traceLen

\* drawFrame: startTrace
StartTrace(f) == Max(0, f - traceLen)

\* drawFrame: the tail loop from j to frameIdx f, as the frames it visits
\* and the path call made for each
RECURSIVE TraceLoop(_, _, _)
TraceLoop(j, f, start) ==
    IF j <= f
    THEN <<[op |-> IF j = start THEN "moveTo" ELSE "lineTo", frame |-> j]>>
             \o TraceLoop(j + 1, f, start)
    ELSE << >>

TracePath(f) == TraceLoop(StartTrace(f), f, StartTrace(f))

\* variant: the inner loop stops one frame before frameIdx
RECURSIVE GraphLoop_StopsEarly(_, _, _, _, _, _)
GraphLoop_StopsEarly(d, k, j, f, sc, w) ==
    IF j < f
    THEN <<getScreenPos(Positions(d)[j][2 * k], Positions(d)[j][2 * k + 1],
                        sc, w, w)>>
             \o GraphLoop_StopsEarly(d, k, j + 1, f, sc, w)
    ELSE << >>

\* drawGraph: the inner loop over frames j .. f for body k, as the points
\* handed to moveTo / lineTo
RECURSIVE GraphLoop(_, _, _, _, _, _)
GraphLoop(d, k, j, f, sc, w) ==
    IF j <= f
    THEN <<getScreenPos(Positions(d)[j][2 * k], Positions(d)[j][2 * k + 1],
                        sc, w, w)>>
             \o GraphLoop(d, k, j + 1, f, sc, w)
    ELSE << >>

\* drawGraph on a w x w canvas: one stroked path per body k = 0 .. n - 1
\* (place k + 1 of the result), none when the grid loops never end
GraphPaths(d, f, w) ==
    IF DrawGraphResult(d, Num(f), w) = "hang" THEN << >>
    ELSE [b \in 1..d.n |->
            [color |-> colors[((b - 1) % Len(colors)) + 1],
             points |-> GraphLoop(d, b - 1, 0, f, Scale(w, d.limit), w)]]

\* ---------------------------------------------------------------- history
\* toggleTrail: how far a pause / resume / tick sequence at one instant has
\*   got (phase 1, 2, 3) and the frame index it paused at
\* runTrail: the `state` a run was requested in (phase 1), until that run
\*   has failed (phase 2) or another operation has changed `state`
\* lastTick: progress and frame index of the last two passes of animate
\*   that advanced the frame with no load, toggle or reset since
\* resetTrail: 1 after a reset while playing, 2 after the pass of animate
\*   that follows it at the same instant
\* raceTrail: 1 after a response succeeded while another request was
\*   outstanding, 2 after the next response succeeded too, with the dataset
\*   that came last; ended by a new request or a failure
NoToggleTrail == [phase |-> 0, f |-> Num(0)]
NoRunTrail == [phase |-> 0, st |-> Null]
NoRaceTrail == [phase |-> 0, last |-> Null]

\* ---------------------------------------------------------------- init
Init ==
    /\ state = [animData |-> Null, isPlaying |-> FALSE,
                frameIdx |-> Num(0), playStartTime |-> Num(0)]
    /\ now = 0
    /\ size \in Sizes
    /\ pending = 0
    /\ loaderShown = FALSE
    /\ rafPending = TRUE
    /\ hung = FALSE
    /\ fx = Fx("init", Null, << >>)
    /\ toggleTrail = NoToggleTrail
    /\ runTrail = NoRunTrail
    /\ lastTick = Null
    /\ resetTrail = 0
    /\ raceTrail = NoRaceTrail
    /\ rIn = Null
    /\ rOut = Null

\* ---------------------------------------------------------------- state updates
\* variant: the pass advances the frame while paused too
ShouldAdvance_IgnoresPause(st) == st.animData # Null

\* animate: the guard of the per-frame update
ShouldAdvance(st) == st.isPlaying /\ st.animData # Null

\* animate: frameIdx recomputed from the wall clock
OnTick(st, t) ==
    [st EXCEPT !.frameIdx = FrameAt(t, st.playStartTime, st.animData.nFrames)]

\* variant: requesting a run starts playback instead of pausing it
OnRunRequested_StartsPlaying(st) == [st EXCEPT !.isPlaying = TRUE]

\* variant: requesting a run rewinds the loaded animation
OnRunRequested_Rewinds(st) ==
    [st EXCEPT !.isPlaying = FALSE, !.frameIdx = Num(0)]

\* run click handler, before the fetch is issued
OnRunRequested(st) == [st EXCEPT !.isPlaying = FALSE]

\* variant: a response does not replace a dataset that is already loaded
OnLoad_KeepsFirst(st, d, t) ==
    IF st.animData # Null
    THEN [st EXCEPT !.isPlaying = TRUE, !.frameIdx = Num(0),
                    !.playStartTime = Num(t)]
    ELSE [animData |-> d, isPlaying |-> TRUE, frameIdx |-> Num(0),
          playStartTime |-> Num(t)]

\* then(data => ...) of the fetch chain, on success
OnLoad(st, d, t) ==
    [animData |-> d, isPlaying |-> TRUE, frameIdx |-> Num(0),
     playStartTime |-> Num(t)]

\* variant: a failure drops the loaded dataset
OnFailure_DropsData(st) == [st EXCEPT !.animData = Null]

\* catch(err => alert(...)) of the fetch chain
OnFailure(st) == st

\* play click handler with a dataset loaded
OnToggle(st, t) ==
    [st EXCEPT
       !.playStartTime =
           IF ~st.isPlaying
           THEN ResumeOrigin(t, st.frameIdx, st.animData.nFrames)
           ELSE @,
       !.isPlaying = ~st.isPlaying]

\* variant: reset leaves the time base alone
OnReset_KeepsOrigin(st, t) == [st EXCEPT !.frameIdx = Num(0)]

\* variant: reset rewinds only while playing
OnReset_OnlyWhilePlaying(st, t) ==
    IF st.isPlaying
    THEN [st EXCEPT !.frameIdx = Num(0), !.playStartTime = Num(t)]
    ELSE st

\* reset click handler
OnReset(st, t) ==
    [st EXCEPT !.frameIdx = Num(0),
               !.playStartTime = IF st.isPlaying THEN Num(t) ELSE @]

\* ---------------------------------------------------------------- actions
\* the wall clock moves on between two events (a page whose script loops
\* forever handles no further event, so its clock is left alone)
Advance ==
    /\ ~hung
    /\ now < MaxNow
    /\ now' = now + TimeStep
    /\ fx' = Fx("none", Null, << >>)
    /\ toggleTrail' = NoToggleTrail
    /\ resetTrail' = 0
    /\ UNCHANGED <<state, size, pending, loaderShown, rafPending, hung,
                   runTrail, lastTick, raceTrail>>
    /\ UNCHANGED rvars

\* the requestAnimationFrame callback; it re-arms itself in its last
\* statement, which an exception or an endless loop in a draw never reaches
Animate ==
    /\ rafPending /\ ~hung
    /\ LET adv == ShouldAdvance(state)
           st1 == IF adv THEN OnTick(state, now) ELSE state
           draws == IF adv THEN RunDraws(st1.animData, st1.frameIdx, size)
                    ELSE << >>
           out == Outcome(draws)
       IN  /\ state' = st1
           /\ fx' = Fx("animate", Null, draws)
           /\ hung' = (out = "hang")
           /\ rafPending' = (out = "ok")
           /\ lastTick' =
                IF adv
                THEN [prev |-> IF lastTick = Null THEN Null ELSE lastTick.cur,
                      cur |-> [prog |-> ProgressAt(now, state.playStartTime),
                               idx |-> st1.frameIdx]]
                ELSE lastTick
           /\ toggleTrail' =
                IF ~adv THEN toggleTrail
                ELSE IF toggleTrail.phase = 2
                     THEN [toggleTrail EXCEPT !.phase = 3]
                     ELSE NoToggleTrail
           /\ runTrail' = IF adv THEN NoRunTrail ELSE runTrail
           /\ resetTrail' = IF adv /\ resetTrail = 1 THEN 2 ELSE 0
    /\ UNCHANGED <<now, size, pending, loaderShown, raceTrail>>
    /\ UNCHANGED rvars

\* body of the run click handler for body count n and confirm() answer ok,
\* entered by a click on the button named by op
RunRequest(n, ok, op) ==
    IF n > 20 /\ ~ok
    THEN /\ fx' = Fx(op, Null, << >>)
         /\ UNCHANGED <<state, now, size, pending, loaderShown, rafPending,
                        hung, toggleTrail, runTrail, lastTick, resetTrail,
                        raceTrail>>
         /\ UNCHANGED rvars
    ELSE /\ pending < MaxPending
         /\ loaderShown' = TRUE
         /\ state' = OnRunRequested(state)
         /\ pending' = pending + 1
         /\ fx' = Fx(op, Null, << >>)
         /\ runTrail' = [phase |-> 1, st |-> state]
         /\ toggleTrail' = NoToggleTrail
         /\ lastTick' = Null
         /\ resetTrail' = 0
         /\ raceTrail' = NoRaceTrail
         /\ UNCHANGED <<now, size, rafPending, hung>>
         /\ UNCHANGED rvars

RunClick(n, ok) ==
    /\ ~hung
    /\ RunRequest(n, ok, "run")

\* one of the outstanding requests fails: the fetch rejects ("network"),
\* the status is not 2xx ("http"), the body is not JSON ("json") or the
\* payload says success: false ("failure")
FetchFail(cause) ==
    /\ ~hung
    /\ pending > 0
    /\ state' = OnFailure(state)
    /\ fx' = Fx("fetch", cause, << >>)
    /\ loaderShown' = FALSE
    /\ pending' = pending - 1
    /\ runTrail' = IF runTrail.phase = 1
                   THEN [runTrail EXCEPT !.phase = 2]
                   ELSE runTrail
    /\ toggleTrail' = NoToggleTrail
    /\ resetTrail' = 0
    /\ raceTrail' = NoRaceTrail
    /\ UNCHANGED <<now, size, rafPending, hung, lastTick>>
    /\ UNCHANGED rvars

\* one of the outstanding requests succeeds with dataset d
FetchSuccess(d) ==
    /\ ~hung
    /\ pending > 0
    /\ LET st1 == OnLoad(state, d, now)
           draws == RunDraws(st1.animData, st1.frameIdx, size)
           out == Outcome(draws)
       IN  /\ state' = st1
           /\ fx' = Fx("fetch", IF out = "throw" THEN "TypeError" ELSE Null,
                       draws)
           /\ hung' = (out = "hang")
           /\ loaderShown' = IF out = "hang" THEN loaderShown ELSE FALSE
    /\ pending' = pending - 1
    /\ runTrail' = NoRunTrail
    /\ toggleTrail' = NoToggleTrail
    /\ lastTick' = Null
    /\ resetTrail' = 0
    /\ raceTrail' =
         IF raceTrail.phase = 1 THEN [phase |-> 2, last |-> d]
         ELSE IF pending >= 2 THEN [phase |-> 1, last |-> d]
         ELSE NoRaceTrail
    /\ UNCHANGED <<now, size, rafPending>>
    /\ UNCHANGED rvars

\* variant: after clicking the run button the handler goes on to flip
\* isPlaying
ToggleIdle_FallsThrough(n, ok) ==
    /\ ~hung
    /\ state.animData = Null
    /\ pending < MaxPending
    /\ loaderShown' = TRUE
    /\ state' = [state EXCEPT !.isPlaying = TRUE]
    /\ pending' = pending + 1
    /\ fx' = Fx("play", Null, << >>)
    /\ runTrail' = [phase |-> 1, st |-> state]
    /\ toggleTrail' = NoToggleTrail
    /\ lastTick' = Null
    /\ resetTrail' = 0
    /\ raceTrail' = NoRaceTrail
    /\ UNCHANGED <<now, size, rafPending, hung>>
    /\ UNCHANGED rvars

\* play click handler without a dataset: it clicks the run button
ToggleIdle(n, ok) ==
    /\ ~hung
    /\ state.animData = Null
    /\ RunRequest(n, ok, "play")

\* play click handler with a dataset
Toggle ==
    /\ ~hung
    /\ state.animData # Null
    /\ state' = OnToggle(state, now)
    /\ fx' = Fx("toggle", Null, << >>)
    /\ toggleTrail' =
         IF state.isPlaying
         THEN [phase |-> 1, f |-> state.frameIdx]
         ELSE IF toggleTrail.phase = 1
              THEN [toggleTrail EXCEPT !.phase = 2]
              ELSE NoToggleTrail
    /\ runTrail' = NoRunTrail
    /\ lastTick' = Null
    /\ resetTrail' = 0
    /\ raceTrail' = IF raceTrail.phase = 1 THEN raceTrail ELSE NoRaceTrail
    /\ UNCHANGED <<now, size, pending, loaderShown, rafPending, hung>>
    /\ UNCHANGED rvars

\* reset click handler
Reset ==
    /\ ~hung
    /\ LET st1 == OnReset(state, now)
           draws == RunDraws(st1.animData, st1.frameIdx, size)
       IN  /\ state' = st1
           /\ fx' = Fx("reset", Null, draws)
           /\ hung' = (Outcome(draws) = "hang")
    /\ runTrail' = NoRunTrail
    /\ toggleTrail' = NoToggleTrail
    /\ lastTick' = Null
    /\ resetTrail' = IF state.isPlaying THEN 1 ELSE 0
    /\ raceTrail' = IF raceTrail.phase = 1 THEN raceTrail ELSE NoRaceTrail
    /\ UNCHANGED <<now, size, pending, loaderShown, rafPending>>
    /\ UNCHANGED rvars

\* resizeCanvases, as the window's resize handler, for container width w
Resize(w) ==
    /\ ~hung
    /\ size' = w
    /\ LET draws == IF ~state.isPlaying /\ state.animData # Null
                    THEN RunDraws(state.animData, state.frameIdx, w)
                    ELSE << >>
       IN  /\ fx' = Fx("resize", Null, draws)
           /\ hung' = (Outcome(draws) = "hang")
    /\ resetTrail' = 0
    /\ UNCHANGED <<state, now, pending, loaderShown, rafPending,
                   toggleTrail, runTrail, lastTick, raceTrail>>
    /\ UNCHANGED rvars

Causes == {"network", "http", "json", "failure"}

Next ==
    \/ Advance
    \/ Animate
    \/ \E n \in Ns, ok \in BOOLEAN : RunClick(n, ok)
    \/ \E c \in Causes : FetchFail(c)
    \/ \E d \in Datasets : FetchSuccess(d)
    \/ \E n \in Ns, ok \in BOOLEAN : ToggleIdle(n, ok)
    \/ Toggle
    \/ Reset
    \/ \E w \in Sizes : Resize(w)

Spec == Init /\ [][Next]_vars

\* ---------------------------------------------------------------- drawing helpers on their own
engine == <<state, now, size, pending, loaderShown, rafPending, hung, fx,
            toggleTrail, runTrail, lastTick, resetTrail, raceTrail>>

\* the tail loop of drawFrame at frame index f
CallTrace(f) ==
    /\ rIn' = [fn |-> "trace", f |-> f]
    /\ rOut' = TracePath(f)
    /\ UNCHANGED engine

\* the trajectory loops of drawGraph for dataset d at frame index f
CallGraph(d, f, w) ==
    /\ InRange(d, f)
    /\ rIn' = [fn |-> "graph", d |-> d, f |-> f, w |-> w]
    /\ rOut' = GraphPaths(d, f, w)
    /\ UNCHANGED engine

\* getScreenPos with the scale drawFrame derives from width w and limit lim
CallMap(x, y, lim, w, h) ==
    /\ rIn' = [fn |-> "map", x |-> x, y |-> y, limit |-> lim, w |-> w, h |-> h]
    /\ rOut' = getScreenPos(x, y, Scale(w, lim), w, h)
    /\ UNCHANGED engine

Coords == (-MaxCoord)..MaxCoord

RenderNext ==
    \/ \E f \in 0..MaxTraceIdx : CallTrace(f)
    \/ \E d \in Datasets, f \in 0..MaxFrames, w \in Sizes : CallGraph(d, f, w)
    \/ \E x \in Coords, y \in Coords, lim \in Limits, w \in Sizes, h \in Sizes :
          CallMap(x, y, lim, w, h)

RenderSpec == Init /\ [][RenderNext]_vars

\* ---------------------------------------------------------------- claims
\* a loaded dataset with at least one frame and a positive spatial limit
WellFormed(d) == d # Null /\ d.nFrames >= 1 /\ d.limit > 0

\* C1: pausing and resuming at one instant, then a tick at that instant,
\* leaves frameIdx at the index playback was paused at
C1_PauseResumeKeepsFrame ==
    toggleTrail.phase = 3 => state.frameIdx = toggleTrail.f

\* C2: with a dataset of at least one frame loaded, frameIdx is an integer
\* within 0 .. positions.length - 1
C2_FrameIdxInRange ==
    (state.animData # Null /\ state.animData.nFrames >= 1)
        => /\ state.frameIdx # NaN
           /\ InRange(state.animData, state.frameIdx.num)

\* C3 as stated: once a requested run has failed, `state` is what it was
\* right before the request
C3_FailedRunRestoresState ==
    runTrail.phase = 2 => state = runTrail.st

\* C3 amended: once a requested run has failed, the dataset, frameIdx and
\* playStartTime are what they were right before the request, and isPlaying
\* is false
C3_FailedRunKeepsPlayback ==
    runTrail.phase = 2 => state = [runTrail.st EXCEPT !.isPlaying = FALSE]

C3_Witness ==
    /\ runTrail.phase = 2
    /\ runTrail.st.isPlaying
    /\ runTrail.st.frameIdx # Num(0)
    /\ fx.alert = "http"

\* C4: a failed fetch leaves animData as it was before the request, absent
\* or loaded
C4_FailedFetchKeepsDataset ==
    runTrail.phase = 2 => state.animData = runTrail.st.animData

C4_Witness ==
    /\ runTrail.phase = 2
    /\ runTrail.st.animData # Null
    /\ fx.alert = "failure"

\* C5: the reset handler sets frameIdx to 0 and leaves isPlaying and the
\* dataset alone, whether playing or paused
C5_ResetToFrameZero ==
    [][Reset => /\ state'.frameIdx = Num(0)
                /\ state'.isPlaying = state.isPlaying
                /\ state'.animData = state.animData]_vars

C5_Witness ==
    /\ fx.op = "reset"
    /\ state.isPlaying
    /\ state.animData # Null
    /\ now > 0
    /\ state.playStartTime = Num(now)

\* C6: from one advancing pass of animate to the next, with no load, toggle
\* or reset between them, frameIdx does not decrease unless the progress
\* within the period has wrapped
C6_TickMonotoneUntilWrap ==
    (lastTick # Null /\ lastTick.prev # Null)
        => \/ lastTick.cur.idx.num >= lastTick.prev.idx.num
           \/ lastTick.cur.prog.num < lastTick.prev.prog.num

C6_Witness ==
    /\ lastTick # Null
    /\ lastTick.prev # Null
    /\ lastTick.prev.idx = Num(1)
    /\ lastTick.cur.idx = Num(2)

\* C7: the resize handler leaves `state` alone, and while paused with a
\* well-formed dataset it draws the scene and the plot at frameIdx
C7_ResizeRedrawsWhilePaused ==
    [][\A w \in Sizes :
         Resize(w) =>
           /\ state' = state
           /\ (~state.isPlaying /\ WellFormed(state.animData))
                => fx'.draws = <<Draw("drawFrame", state.frameIdx, w, "ok"),
                                 Draw("drawGraph", state.frameIdx, w, "ok")>>]_vars

\* C8: a pass of animate while not playing changes nothing in `state` and
\* draws nothing
C8_PausedTickIsNoOp ==
    [][(Animate /\ ~state.isPlaying) => (state' = state /\ fx'.draws = << >>)]_vars

C8_Witness ==
    /\ fx.op = "animate"
    /\ ~state.isPlaying
    /\ state.animData # Null
    /\ state.frameIdx = Num(1)

\* C9: a successful response whose dataset has no frames changes nothing
\* in `state`, draws nothing and raises no alert
C9_EmptyLoadIsSilentNoOp ==
    [][\A d \in Datasets :
         (FetchSuccess(d) /\ d.nFrames = 0)
           => (state' = state /\ fx'.draws = << >> /\ fx'.alert = Null)]_vars

\* C10: after every pass another pass of animate is armed
C10_LoopAlwaysArmed == rafPending

\* C11: with a spatial limit of zero or less loaded, no handler draws
C11_DegenerateLimitSkipsDrawing ==
    (state.animData # Null /\ state.animData.limit <= 0) => fx.draws = << >>

\* C12: no run is requested while one is outstanding, so that at most one
\* fetch is in flight
C12_AtMostOneFetch == pending <= 1

\* C13: the loading indicator is shown exactly while a fetch is outstanding
C13_LoaderIffPending == loaderShown <=> pending > 0

\* C17: reset while playing sets playStartTime to now, so that a pass of
\* animate at that instant computes frameIdx 0; reset while paused leaves
\* playStartTime alone
C17_ResetRestartsTimeBase ==
    /\ [](resetTrail = 2 => state.frameIdx = Num(0))
    /\ [][Reset => state'.playStartTime =
                      IF state.isPlaying THEN Num(now)
                      ELSE state.playStartTime]_vars

C17_Witness ==
    /\ resetTrail = 2
    /\ now > 0
    /\ state.animData # Null
    /\ state.animData.nFrames = MaxFrames
    /\ rafPending

\* C18: isPlaying implies that a dataset is loaded
C18_PlayingImpliesDataset == state.isPlaying => state.animData # Null

C18_Witness ==
    /\ state.isPlaying
    /\ state.animData # Null
    /\ pending > 0
    /\ fx.op = "toggle"

\* C19: every successful response replaces the dataset, rewinds to frame 0
\* and starts playback; after two responses to requests that were
\* outstanding together the dataset is that of the later response
C19_LastResponseWins ==
    /\ [](raceTrail.phase = 2 => state.animData = raceTrail.last)
    /\ [][\A d \in Datasets :
            FetchSuccess(d) => /\ state'.animData = d
                               /\ state'.frameIdx = Num(0)
                               /\ state'.isPlaying]_vars

C19_Witness ==
    /\ raceTrail.phase = 2
    /\ pending = 0
    /\ state.animData = Data(1, 2, 2)
    /\ state.isPlaying

\* C20: a play click without a dataset leaves isPlaying false and frameIdx
\* and playStartTime alone, and requests a run as a run click does
C20_IdleToggleRequestsRun ==
    [][\A n \in Ns, ok \in BOOLEAN :
         ToggleIdle(n, ok) =>
           /\ ~state'.isPlaying
           /\ state'.playStartTime = state.playStartTime
           /\ state'.frameIdx = state.frameIdx
           /\ state'.animData = Null
           /\ IF n > 20 /\ ~ok
              THEN pending' = pending /\ loaderShown' = loaderShown
              ELSE pending' = pending + 1 /\ loaderShown']_vars

C20_Witness ==
    /\ fx.op = "play"
    /\ state.animData = Null
    /\ pending > 0
    /\ loaderShown

\* C14: the tail of drawFrame visits the frames max(0, f - traceLen) .. f in
\* increasing order, min(f, traceLen) + 1 of them, none before 0 or after f
C14_TraceTail ==
    (rIn # Null /\ rIn.fn = "trace")
        => LET f == rIn.f
               first == IF f > traceLen THEN f - traceLen ELSE 0
               count == (IF f < traceLen THEN f ELSE traceLen) + 1
           IN  /\ Len(rOut) = count
               /\ \A i \in 1..Len(rOut) :
                      /\ rOut[i].frame = first + i - 1
                      /\ rOut[i].frame >= 0
                      /\ rOut[i].frame <= f
               /\ rOut[Len(rOut)].frame = f

C14_Witness ==
    /\ rIn # Null
    /\ rIn.fn = "trace"
    /\ rIn.f = traceLen + 2
    /\ Len(rOut) = traceLen + 1
    /\ rOut[1].frame = 2

\* C15: for a well-formed dataset and a frame index f in range, drawGraph
\* strokes one path per body k, in the colour colors[k mod colors.length],
\* through body k's positions at the frames 0 .. f in order: f + 1 points
C15_TrajectoryPaths ==
    (rIn # Null /\ rIn.fn = "graph" /\ WellFormed(rIn.d))
        => /\ DOMAIN rOut = 1..rIn.d.n
           /\ \A k \in 0..(rIn.d.n - 1) :
                /\ rOut[k + 1].color = colors[(k % 7) + 1]
                /\ Len(rOut[k + 1].points) = rIn.f + 1
                /\ \A j \in 0..rIn.f :
                     rOut[k + 1].points[j + 1] =
                        getScreenPos(Positions(rIn.d)[j][2 * k],
                                     Positions(rIn.d)[j][2 * k + 1],
                                     Scale(rIn.w, rIn.d.limit), rIn.w, rIn.w)

C15_Witness ==
    /\ rIn # Null
    /\ rIn.fn = "graph"
    /\ rIn.d = Data(21, 2, MaxFrames)
    /\ rIn.f = MaxFrames - 1
    /\ rOut[8].color = colors[1]
    /\ Len(rOut[21].points) = MaxFrames

\* C16: with a finite scale the mapper returns
\* (x * scale + w / 2, -y * scale + h / 2); it maps the origin to the centre
\* of the surface, and with limit 2 on a 400 x 400 surface (scale 100) it
\* maps (-1, 0) to (100, 200)
C16_CoordinateMapper ==
    (rIn # Null /\ rIn.fn = "map" /\ rIn.limit # 0)
        => LET sc == Scale(rIn.w, rIn.limit).num
           IN  /\ rOut = [x |-> Num(rIn.x * sc + rIn.w \div 2),
                          y |-> Num((-rIn.y) * sc + rIn.h \div 2)]
               /\ (rIn.x = 0 /\ rIn.y = 0)
                    => rOut = [x |-> Num(rIn.w \div 2), y |-> Num(rIn.h \div 2)]
               /\ (rIn.limit = 2 /\ rIn.w = 400 /\ rIn.h = 400
                     /\ rIn.x = -1 /\ rIn.y = 0)
                    => (sc = 100 /\ rOut = [x |-> Num(100), y |-> Num(200)])

C16_Witness ==
    /\ rIn # Null
    /\ rIn.fn = "map"
    /\ rIn = [fn |-> "map", x |-> -1, y |-> 0, limit |-> 2, w |-> 400,
              h |-> 400]
    /\ rOut = [x |-> Num(100), y |-> Num(200)]

====
